---- MODULE Spec2Model ----
(***************************************************************************)
(* crates-io-proxy: the caching proxy for the sparse registry index and    *)
(* the crate download API.  The model follows src/main.rs (dispatcher and  *)
(* worker threads), src/index_entry.rs (IndexEntry), src/metadata_cache.rs *)
(* (INDEX_CACHE), src/file_cache.rs (the files below the cache dir) and   *)
(* src/crate_info.rs (CrateInfo).                                          *)
(*                                                                         *)
(* Option<T> is a sequence: <<>> is None, <<x>> is Some(x).                *)
(* A SystemTime is a number of ticks, TicksPerSec ticks to the second; an  *)
(* HTTP date string carries whole seconds only.  An Instant is kept as the *)
(* time elapsed since it (all the code reads of it is Instant::elapsed),   *)
(* which stops counting once it is past the TTL.                           *)
(***************************************************************************)
EXTENDS Integers, Sequences, FiniteSets, TLC

VARIABLES meta, files, up, style, req, crates, dl, cmp, path

vars == <<meta, files, up, style, req, crates, dl, cmp, path>>

\* The registry index side, the crate download side and the operands of one
\* is_equivalent call.  The two sides share no state in the program: they use
\* different cache directories and only the index has a metadata cache.
indexVars == <<meta, files, up, style, req>>

crateVars == <<crates, dl>>

(* ------------------------------ bounds --------------------------------- *)

\* Worker slots: requests that can be in flight at once.
MaxReq == 2

\* Versions the upstream registry publishes of one index entry.
MaxVer == 2

\* Index cache TTL (config.cache_ttl), in clock readings.
Ttl == 1

\* Resolution of SystemTime against the one-second HTTP date.
TicksPerSec == 2

Names == {"serde"}

Slots == 1..MaxReq

Versions == 1..MaxVer

(* --------------------------- Option helpers ---------------------------- *)

None == <<>>

Some(x) == <<x>>

IsSome(o) == o # <<>>

Get(o) == o[1]

(* ------------------------- HTTP date strings --------------------------- *)

\* httpdate::fmt_http_date: the instant cut down to whole seconds.
FmtHttpDate(t) == [ok |-> TRUE, secs |-> t \div TicksPerSec]

\* httpdate::parse_http_date(..).ok(): None for a string that is no date.
ParseHttpDate(d) == IF d.ok THEN Some(d.secs * TicksPerSec) ELSE None

BadDate == [ok |-> FALSE, secs |-> 0]

DateOfVersion(v) == [ok |-> TRUE, secs |-> v]

(* ----------------------------- IndexEntry ------------------------------ *)

\* IndexEntry::new
NewEntry(n) == [name |-> n, etag |-> None, mtime |-> None, atime |-> None]

\* IndexEntry::last_modified
LastModified(e) == IF IsSome(e.mtime) THEN Some(FmtHttpDate(Get(e.mtime))) ELSE None

\* An equivalence in which two missing validators match.
IsEquivalentLoose(a, b) ==
    \/ a.etag = b.etag
    \/ LastModified(a) = LastModified(b)

\* IndexEntry::is_equivalent
IsEquivalent(a, b) ==
    \/ (IsSome(a.etag) /\ a.etag = b.etag)
    \/ (IsSome(LastModified(a)) /\ LastModified(a) = LastModified(b))

\* An expiry check that is off by one: elapsed() >= ttl.
IsExpiredAtTtl(e) == IF IsSome(e.atime) THEN Get(e.atime) >= Ttl ELSE FALSE

\* IndexEntry::is_expired_with_ttl: atime.elapsed() > ttl, false without atime
IsExpired(e) == IF IsSome(e.atime) THEN Get(e.atime) > Ttl ELSE FALSE

\* IndexEntry::set_etag
SetEtag(e, etag) == [e EXCEPT !.etag = Some(etag)]

\* IndexEntry::set_last_modified
SetLastModified(e, d) == [e EXCEPT !.mtime = ParseHttpDate(d)]

\* A set_last_updated that leaves the access time as it is.
KeepLastUpdated(e) == e

\* IndexEntry::set_last_updated: Instant::now(), nothing elapsed since
SetLastUpdated(e) == [e EXCEPT !.atime = Some(0)]

\* The passing of one clock unit, as an entry's atime sees it.
Older(e) ==
    IF IsSome(e.atime) /\ Get(e.atime) <= Ttl
    THEN [e EXCEPT !.atime = Some(Get(e.atime) + 1)]
    ELSE e

(* ------------------------------ upstream ------------------------------- *)

\* Which validators the upstream registry sends with its answers: an ETag
\* or none, and a Last-Modified that is a date ("ok"), is no date ("bad") or
\* is not sent ("none").  The registries covered: ETag and Last-Modified (as
\* index.crates.io), Last-Modified alone, ETag and an unparsable Last-Modified.
Styles ==
    {[etag |-> TRUE, lm |-> "ok"], [etag |-> FALSE, lm |-> "ok"],
     [etag |-> TRUE, lm |-> "bad"]}

\* The body of version v of an index entry.
Body(v) == <<v>>

\* A download_index_entry that sends every validator it has.
RequestHeadersAll(basis) == [inm |-> basis.etag, ims |-> LastModified(basis)]

\* The conditional request headers download_index_entry sends for a basis.
RequestHeaders(basis) ==
    IF IsSome(basis.etag)
    THEN [inm |-> basis.etag, ims |-> None]
    ELSE IF IsSome(LastModified(basis))
         THEN [inm |-> None, ims |-> LastModified(basis)]
         ELSE [inm |-> None, ims |-> None]

NoHeaders == [inm |-> None, ims |-> None]

\* An origin server's evaluation of the conditional request.
NotModified(hdrs, v, st) ==
    \/ (IsSome(hdrs.inm) /\ st.etag /\ Get(hdrs.inm) = v)
    \/ (IsSome(hdrs.ims) /\ st.lm = "ok" /\ Get(hdrs.ims).ok /\ v <= Get(hdrs.ims).secs)

(* ------------------------- request URLs, routing ------------------------ *)

\* A crate name as the code sees it: its characters, one string each.
Spelling ==
    [n \in {"serde", "tokio"} |->
        IF n = "serde" THEN <<"s", "e", "r", "d", "e">>
                       ELSE <<"t", "o", "k", "i", "o">>]

CRATES_INDEX_PATH == "/index/"

CRATES_API_PATH == "/api/v1/crates/"

\* "config.json", the one path segment of the registry configuration URL.
CONFIG_JSON_ENDPOINT == << <<"c", "o", "n", "f", "i", "g", ".", "j", "s", "o", "n">> >>

\* A request URL is the prefix it starts with (head) and what follows (rest),
\* and what follows is the sequence of segments that split('/') yields.
StripPrefix(url, prefix) == IF url.head = prefix THEN Some(url.rest) ELSE None

IsConfigJsonUrl(indexUrl) == indexUrl = CONFIG_JSON_ENDPOINT

HasDot(url) == \E i \in 1..Len(url) : \E j \in 1..Len(url[i]) : url[i][j] = "."

\* Strings are UTF-8: a character takes one byte, or two ("e_acute").
Utf8Len(c) == IF c = "e_acute" THEN 2 ELSE 1

RECURSIVE ByteLen(_)
ByteLen(str) == IF str = <<>> THEN 0 ELSE Utf8Len(Head(str)) + ByteLen(Tail(str))

\* &str[a..b]: the characters between two byte offsets, None where an offset
\* falls outside the string or inside a character (the slice panics).
Slice(str, a, b) ==
    LET at(k) == {i \in 0..Len(str) : ByteLen(SubSeq(str, 1, i)) = k}
    IN  IF at(a) # {} /\ at(b) # {}
        THEN Some(SubSeq(str, (CHOOSE i \in at(a) : TRUE) + 1, CHOOSE i \in at(b) : TRUE))
        ELSE None

\* to_index_url did not return: a slice panicked. No URL has no segment.
Panicked == <<>>

\* An IndexEntry::to_index_url that leaves the directories out.
ToIndexUrlFlat(e) == <<e.name>>

\* IndexEntry::to_index_url (to_file_path returns the same path).
ToIndexUrl(e) ==
    LET name == e.name
        sz == ByteLen(name)
    IN  IF sz = 0 THEN << <<>> >>
        ELSE IF sz \in {1, 2} THEN << <<IF sz = 1 THEN "1" ELSE "2">>, name >>
        ELSE IF sz = 3
             THEN LET first == Slice(name, 0, 1)
                  IN  IF first = None THEN Panicked ELSE << <<"3">>, Get(first), name >>
             ELSE LET first == Slice(name, 0, 2)
                      second == Slice(name, 2, 4)
                  IN  IF first = None \/ second = None THEN Panicked
                      ELSE << Get(first), Get(second), name >>

\* A try_from_index_url that takes every path of three segments.
TryFromIndexUrlAnyThree(url) ==
    IF HasDot(url) THEN None
    ELSE IF Len(url) = 2 /\ url[1] \in {<<"1">>, <<"2">>} THEN Some(NewEntry(url[2]))
    ELSE IF Len(url) = 3 THEN Some(NewEntry(url[3]))
    ELSE None

\* IndexEntry::try_from_index_url.
TryFromIndexUrl(url) ==
    IF HasDot(url) THEN None
    ELSE IF url[1] \in {<<"1">>, <<"2">>}
         THEN IF Len(url) = 2 THEN Some(NewEntry(url[2])) ELSE None
         ELSE IF Len(url) = 3 THEN Some(NewEntry(url[3])) ELSE None

\* The URL a client requests the index entry of crate n under.
IndexUrlOf(n) == [head |-> CRATES_INDEX_PATH, rest |-> ToIndexUrl(NewEntry(Spelling[n]))]

NoUrl == [head |-> "", rest |-> << <<>> >>]

Methods == {"GET", "POST"}

(* ------------------------------ requests ------------------------------- *)

NoError == [kind |-> "none", code |-> 0]

NoResponse == [entry |-> NewEntry(""), status |-> 0, data |-> <<>>]

\* One request: where its handling stands (pc), the handler's locals (name,
\* entry, cached, basis, response, err; a local holds its initial value while
\* it is not live), what was observed of it (sent: the conditional headers
\* of its upstream GET; ups: its upstream GETs; reval: it found an expired
\* entry; quiet: since it was accepted no other request was accepted, no
\* version was published and no file was removed; retry: it repeats the
\* request that was just answered 503; method, url: the request line) and the
\* response the client got (resp).
IdleReq ==
    [pc |-> "idle", name |-> "", entry |-> NewEntry(""), cached |-> None,
     basis |-> NewEntry(""), response |-> NoResponse, err |-> NoError,
     sent |-> NoHeaders, ups |-> 0, reval |-> FALSE, quiet |-> FALSE,
     retry |-> FALSE, method |-> "", url |-> NoUrl, resp |-> None]

\* A handler that returns without a response: the request is dropped.
Dropped(q, resp) == IdleReq

\* The request is answered: what is kept is what was observed of it.
Done(q, resp) ==
    [IdleReq EXCEPT !.pc = "done", !.name = q.name, !.entry = q.entry,
                    !.response = q.response, !.err = q.err, !.ups = q.ups, !.reval = q.reval,
                    !.quiet = q.quiet, !.retry = q.retry,
                    !.method = q.method, !.url = q.url,
                    !.resp = Some(resp)]

\* An entry without its atime, where the code does not read it again.
NoAtime(e) == [e EXCEPT !.atime = None]

\* A proxy that makes the upstream call on the accept thread.
DispatcherPcsInlineFetch == {"d_file", "d_stat", "fetch"}

\* Where the accept thread stands while it dispatches a request: the lookups
\* of handle_index_request. All else runs on the request's spawned thread.
DispatcherPcs == {"d_file", "d_stat"}

WorkerPcs == {"fetch", "create", "write", "setmtime", "meta", "reply", "inval", "err"}

\* A response that leaves the index headers out.
ReplyNoValidators(status, e, body) ==
    [status |-> status, etag |-> None, lm |-> None, body |-> body]

\* What the client gets: status, the ETag and Last-Modified headers, the body.
Reply(status, e, body) ==
    [status |-> status, etag |-> e.etag, lm |-> LastModified(e), body |-> body]

\* send_error_response / send_json_response: no index headers.
ErrorReply(status) == [status |-> status, etag |-> None, lm |-> None, body |-> <<>>]

(* --------------------------- crate downloads --------------------------- *)

\* main.rs: the limit on the size of a downloaded crate file, in bytes.
MAX_CRATE_SIZE == 16777216

\* CrateInfo::try_from_download_url; a URL path is its sequence of segments.
TryFromDownloadUrl(url) ==
    IF Len(url) >= 2 /\ url[Len(url)] = "download" /\ Len(url) - 1 = 2
    THEN Some([name |-> url[1], version |-> url[2]])
    ELSE None

\* CrateInfo::to_file_path: <name>/<name>-<version>.crate
ToFilePath(c) == <<c.name, c.name, c.version>>

DownloadUrls ==
    {<<"serde", "1.0.0", "download">>, <<"serde", "1.0.1", "download">>,
     <<"serde", "download">>}

CrateInfos ==
    {Get(TryFromDownloadUrl(u)) :
        u \in {v \in DownloadUrls : IsSome(TryFromDownloadUrl(v))}}

CratePaths == {ToFilePath(c) : c \in CrateInfos}

\* A response body or a file content: the bytes of crate `of`, `len` of them.
Bytes(c, len) == [of |-> c, len |-> len]

NoBytes == [of |-> <<>>, len |-> 0]

\* What upstream sent for a crate: the Content-Length header (hdr: "len" with
\* the body's length, "bad" with a value that is no integer, "none") and the
\* length of the body.
NoAnswer == [hdr |-> "", len |-> 0]

\* One download request: where its handling stands (pc), the handler's locals
\* (crate, data), what was observed of it (hit: the crate file existed when
\* the request was dispatched; ups: its upstream GETs; answer: what upstream
\* sent; wrote: it wrote to the cache; url: what follows the API prefix in the
\* request line) and the client's response (resp).
IdleDl ==
    [pc |-> "idle", crate |-> None, data |-> NoBytes, err |-> NoError,
     hit |-> FALSE, ups |-> 0, answer |-> NoAnswer, wrote |-> FALSE,
     url |-> <<>>, resp |-> None]

\* send_crate_data_response / send_error_response / send_json_response
CrateReply(status, data) == [status |-> status, body |-> data]

(* ------------------------------- routing ------------------------------- *)

\* handle_index_request up to the point where the caches come in: the
\* configuration file, a path that names no entry, an index entry.
IndexRoute(indexUrl) ==
    IF IsConfigJsonUrl(indexUrl) THEN "config"
    ELSE IF TryFromIndexUrl(indexUrl) = None THEN "not_found"
    ELSE "index"

\* handle_download_request up to the same point.
DownloadRoute(crateUrl) ==
    IF TryFromDownloadUrl(crateUrl) = None THEN "not_found" ELSE "download"

\* handle_get_request
HandleGetRequest(url) ==
    IF IsSome(StripPrefix(url, CRATES_INDEX_PATH))
    THEN IndexRoute(Get(StripPrefix(url, CRATES_INDEX_PATH)))
    ELSE IF IsSome(StripPrefix(url, CRATES_API_PATH))
         THEN DownloadRoute(Get(StripPrefix(url, CRATES_API_PATH)))
         ELSE "not_found"

\* A main_loop that does not look at the method.
MainLoopAnyMethod(method, url) == HandleGetRequest(url)

\* main_loop: one request taken off the listening socket.
MainLoop(method, url) ==
    IF method # "GET" THEN "forbidden" ELSE HandleGetRequest(url)

\* The synthesized config.json, which is no version of an index entry.
ConfigJson == <<0>>

\* What the client gets where main_loop and the handlers answer at once.
ImmediateReply(route) ==
    IF route = "forbidden" THEN ErrorReply(403)
    ELSE IF route = "config"
         THEN [status |-> 200, etag |-> None, lm |-> None, body |-> ConfigJson]
         ELSE ErrorReply(404)

\* The request lines with an index or an unknown path: an entry's URL, the
\* configuration file, an entry's name without its directories, the root.
RequestUrls ==
    {IndexUrlOf(n) : n \in Names}
        \cup {[head |-> CRATES_INDEX_PATH, rest |-> CONFIG_JSON_ENDPOINT],
              [head |-> CRATES_INDEX_PATH, rest |-> <<Spelling["serde"]>>],
              [head |-> "/", rest |-> << <<>> >>]}

(* ------------------------- index paths: the calls ----------------------- *)

\* Longest crate name drawn, in characters.
MaxNameLen == 5

\* A letter, a digit, the dot and a character of two bytes.
Alphabet == {"a", "1", ".", "e_acute"}

RECURSIVE Strings(_)
Strings(k) ==
    IF k = 0 THEN {<<>>}
    ELSE Strings(k - 1) \cup {Append(str, c) : str \in Strings(k - 1), c \in Alphabet}

\* One to_index_url call and the try_from_index_url call on what it returned
\* (step: "new", then "url" or "panic", then "parsed").
NoPath == [name |-> <<>>, step |-> "none", url |-> Panicked, parsed |-> None]

(* ---------------------------- is_equivalent ---------------------------- *)

\* No is_equivalent call under observation.
NoCmp == [a |-> NewEntry(""), b |-> NewEntry(""), result |-> None]

InitIndex ==
    /\ meta = [n \in Names |-> None]
    /\ files = [n \in Names |-> None]
    /\ up = [n \in Names |-> 1]
    /\ style \in Styles
    /\ req = [r \in Slots |-> IdleReq]

InitCrates ==
    /\ crates = [p \in CratePaths |-> None]
    /\ dl = [r \in Slots |-> IdleDl]

Init ==
    /\ InitIndex
    /\ InitCrates
    /\ cmp = NoCmp
    /\ path = NoPath

(* --------------------------- the dispatcher ---------------------------- *)

\* The accept loop is one thread: it takes the next request only when it is
\* done dispatching the one before.
DispatcherFree == \A q \in Slots : req[q].pc \notin DispatcherPcs

\* A finished request is looked at before anything else happens: what the
\* client got is read off the state in which it got it.
NoneDone == \A q \in Slots : req[q].pc # "done"

\* Slots carry no identity: a request takes the lowest idle one.
FreeSlot(r) ==
    /\ req[r].pc = "idle"
    /\ \A q \in Slots : q < r => req[q].pc # "idle"

ClientEtags == {None} \cup {Some(v) : v \in Versions}

ClientDates == {None, Some(BadDate)} \cup {Some(DateOfVersion(v)) : v \in Versions}

\* handle_index_request: the client's validators copied into the entry.
ClientEntry(n, inm, ims) ==
    LET e0 == NewEntry(n)
        e1 == IF IsSome(inm) THEN SetEtag(e0, Get(inm)) ELSE e0
    IN  IF IsSome(ims) THEN SetLastModified(e1, Get(ims)) ELSE e1

\* forward_index_request: the basis of the upstream request and the spawn.
Forward(q, entry, cachedEntry) ==
    [q EXCEPT !.pc = "fetch",
              !.entry = entry,
              !.cached = None,
              !.basis = IF IsSome(cachedEntry) THEN NoAtime(Get(cachedEntry)) ELSE entry]

\* metadata_fetch_index_entry
MetadataFetch(n) == meta[n]

\* cache_fetch_index_entry: the bytes of the file, None when it cannot be read.
CacheFetch(n) == IF IsSome(files[n]) THEN Some(Get(files[n]).data) ELSE None

\* cache_try_find_index_entry: an entry carrying the file's mtime.
CacheTryFind(n) ==
    IF IsSome(files[n])
    THEN Some([NewEntry(n) EXCEPT !.mtime = Some(Get(files[n]).mtime)])
    ELSE None

HasValidator(e) == IsSome(e.etag) \/ IsSome(e.mtime)

\* The clients' behaviour the model covers: requests with any validators one
\* after the other, and requests without validators at the same time.
Overlap(entry) ==
    \/ \A q \in Slots : req[q].pc = "idle"
    \/ /\ ~HasValidator(entry)
       /\ \A q \in Slots : ~HasValidator(req[q].entry)

\* Another request is accepted, a version is published or a file is removed
\* while the requests of ns are being handled.
Disturbed(ns) ==
    [q \in Slots |-> IF req[q].name \in ns THEN [req[q] EXCEPT !.quiet = FALSE]
                                           ELSE req[q]]

\* handle_index_request, up to and including the metadata cache lookup.
HandleIndexRequest(q) ==
    LET cached == MetadataFetch(q.name)
    IN  IF IsSome(cached) /\ IsExpired(Get(cached))
        THEN Forward([q EXCEPT !.reval = TRUE], q.entry, cached)
        ELSE IF IsSome(cached) /\ IsEquivalent(Get(cached), q.entry)
        THEN Done(q, Reply(304, Get(cached), <<>>))
        ELSE IF IsSome(cached)
        THEN [q EXCEPT !.pc = "d_file", !.cached = Some(NoAtime(Get(cached)))]
        ELSE [q EXCEPT !.pc = "d_stat"]

\* main_loop takes a request for an index entry and hands it to
\* handle_index_request.
Accept(r, n, inm, ims) ==
    /\ NoneDone
    /\ FreeSlot(r)
    /\ DispatcherFree
    /\ Overlap(ClientEntry(n, inm, ims))
    /\ MainLoop("GET", IndexUrlOf(n)) = "index"
    /\ LET alone == \A q \in Slots : req[q].pc = "idle"
           q == [IdleReq EXCEPT !.name = n, !.entry = ClientEntry(n, inm, ims),
                                !.method = "GET", !.url = IndexUrlOf(n),
                                !.quiet = alone]
       IN  req' = [Disturbed(DOMAIN meta) EXCEPT ![r] = HandleIndexRequest(q)]
    /\ UNCHANGED <<meta, files, up, style>>
    /\ UNCHANGED <<crateVars, cmp, path>>

\* main_loop and the handlers answer without a cache or upstream: 403 to
\* what is not a GET, the configuration file, 404 to a path that names nothing.
Immediate(r, method, url) ==
    /\ NoneDone
    /\ FreeSlot(r)
    /\ DispatcherFree
    /\ MainLoop(method, url) \in {"forbidden", "config", "not_found"}
    /\ LET q == [IdleReq EXCEPT !.method = method, !.url = url]
       IN  req' = [req EXCEPT ![r] = Done(q, ImmediateReply(MainLoop(method, url)))]
    /\ UNCHANGED <<meta, files, up, style>>
    /\ UNCHANGED <<crateVars, cmp, path>>

\* The 503 of a lost cache file reached the client: ups counts the upstream
\* answer and err is empty, so the 503 is the proxy's own.
CacheLost(q) ==
    /\ q.pc = "done"
    /\ q.err = NoError
    /\ q.ups = 1
    /\ q.resp = Some(ErrorReply(503))

\* The client that was answered 503 for a lost cache file sends the same
\* request again, and it is the next request main_loop takes.
Retry(r) ==
    /\ CacheLost(req[r])
    /\ req[r].quiet
    /\ LET q == [IdleReq EXCEPT !.name = req[r].name, !.entry = req[r].entry,
                                !.method = "GET", !.url = req[r].url,
                                !.quiet = TRUE, !.retry = TRUE]
       IN  req' = [req EXCEPT ![r] = HandleIndexRequest(q)]
    /\ UNCHANGED <<meta, files, up, style>>
    /\ UNCHANGED <<crateVars, cmp, path>>

\* handle_index_request: the index file cache hit.
DispatchFile(r) ==
    /\ NoneDone
    /\ req[r].pc = "d_file"
    /\ LET q == req[r]
           data == CacheFetch(q.name)
       IN  req' = [req EXCEPT ![r] =
                IF IsSome(data)
                THEN Done(q, Reply(200, Get(q.cached), Get(data)))
                ELSE [q EXCEPT !.pc = "d_stat", !.cached = None]]
    /\ UNCHANGED <<meta, files, up, style>>
    /\ UNCHANGED <<crateVars, cmp, path>>

\* handle_index_request: metadata recovered from the file, then the forward.
DispatchStat(r) ==
    /\ NoneDone
    /\ req[r].pc = "d_stat"
    /\ req' = [req EXCEPT ![r] = Forward(req[r], req[r].entry, CacheTryFind(req[r].name))]
    /\ UNCHANGED <<meta, files, up, style>>
    /\ UNCHANGED <<crateVars, cmp, path>>

(* ----------------------------- the worker ------------------------------ *)

\* download_index_entry: the response headers copied into the entry.
ResponseEntry(basis, v, st) ==
    LET e1 == IF st.etag THEN SetEtag(basis, v) ELSE basis
        e2 == IF st.lm = "ok" THEN SetLastModified(e1, DateOfVersion(v))
              ELSE IF st.lm = "bad" THEN SetLastModified(e1, BadDate)
              ELSE e1
    IN  SetLastUpdated(e2)

\* What read_to_end reads: the entry with a 200; nothing with a 304, or the
\* entry where the upstream sends a body with its 304.
UpstreamBodies(status, v) == IF status = 200 THEN {Body(v)} ELSE {<<>>, Body(v)}

\* download_index_entry returning Ok: upstream answered 200 or 304.
FetchOk(r) ==
    /\ NoneDone
    /\ req[r].pc = "fetch"
    /\ LET q == req[r]
           v == up[q.name]
           hdrs == RequestHeaders(q.basis)
           status == IF NotModified(hdrs, v, style) THEN 304 ELSE 200
       IN  \E data \in UpstreamBodies(status, v) :
             req' = [req EXCEPT ![r] =
                [q EXCEPT !.pc = IF status = 200 THEN "create" ELSE "meta",
                          !.basis = NewEntry(""),
                          !.sent = hdrs,
                          !.ups = q.ups + 1,
                          !.response = [entry |-> ResponseEntry(q.basis, v, style),
                                        status |-> status,
                                        data |-> data]]]
    /\ UNCHANGED <<meta, files, up, style>>
    /\ UNCHANGED <<crateVars, cmp, path>>

ErrorStatuses == {404, 500}

\* A failed download_index_entry after which the cached entry counts as
\* refreshed.
FetchErrRefresh(r, err) ==
    /\ NoneDone
    /\ req[r].pc = "fetch"
    /\ req' = [req EXCEPT ![r] =
            [req[r] EXCEPT !.pc = "err",
                           !.basis = NewEntry(""),
                           !.sent = RequestHeaders(req[r].basis),
                           !.ups = req[r].ups + 1,
                           !.err = err]]
    /\ meta' = [meta EXCEPT ![req[r].name] =
            IF IsSome(@) THEN Some(SetLastUpdated(Get(@))) ELSE @]
    /\ UNCHANGED <<files, up, style>>
    /\ UNCHANGED <<crateVars, cmp, path>>

\* download_index_entry returning Err: no connection, or a status >= 400.
FetchErr(r, err) ==
    /\ NoneDone
    /\ req[r].pc = "fetch"
    /\ req' = [req EXCEPT ![r] =
            [req[r] EXCEPT !.pc = "err",
                           !.basis = NewEntry(""),
                           !.sent = RequestHeaders(req[r].basis),
                           !.ups = req[r].ups + 1,
                           !.err = err]]
    /\ UNCHANGED <<meta, files, up, style>>
    /\ UNCHANGED <<crateVars, cmp, path>>

\* The wall clock when a file is written: after the current version was
\* published and before the next one is.
WallClock(n) == up[n] * TicksPerSec + 1

\* cache_store_index_entry: File::create.
StoreCreate(r) ==
    /\ NoneDone
    /\ req[r].pc = "create"
    /\ files' = [files EXCEPT ![req[r].name] =
            Some([data |-> <<>>, mtime |-> WallClock(req[r].name)])]
    /\ req' = [req EXCEPT ![r].pc = "write", ![r].sent = NoHeaders]
    /\ UNCHANGED <<meta, up, style>>
    /\ UNCHANGED <<crateVars, cmp, path>>

\* cache_store_index_entry: write_all.
StoreWrite(r) ==
    /\ NoneDone
    /\ req[r].pc = "write"
    /\ files' = [files EXCEPT ![req[r].name] =
            Some([data |-> req[r].response.data, mtime |-> WallClock(req[r].name)])]
    /\ req' = [req EXCEPT ![r].pc =
            IF IsSome(req[r].response.entry.mtime) THEN "setmtime" ELSE "meta"]
    /\ UNCHANGED <<meta, up, style>>
    /\ UNCHANGED <<crateVars, cmp, path>>

\* A cache_store_index_entry that leaves the file's mtime as the write set it.
StoreSetMtimeSkipped(r) ==
    /\ NoneDone
    /\ req[r].pc = "setmtime"
    /\ req' = [req EXCEPT ![r].pc = "meta"]
    /\ UNCHANGED <<meta, files, up, style>>
    /\ UNCHANGED <<crateVars, cmp, path>>

\* cache_store_index_entry: set_modified on the open file.
StoreSetMtime(r) ==
    /\ NoneDone
    /\ req[r].pc = "setmtime"
    /\ files' = [files EXCEPT ![req[r].name] =
            Some([data |-> IF IsSome(@) THEN Get(@).data ELSE <<>>,
                  mtime |-> Get(req[r].response.entry.mtime)])]
    /\ req' = [req EXCEPT ![r].pc = "meta"]
    /\ UNCHANGED <<meta, up, style>>
    /\ UNCHANGED <<crateVars, cmp, path>>

\* A metadata store that puts the entry under every name.
MetadataStoreAll(m, e) == [n \in DOMAIN m |-> Some(e)]

\* A metadata store that has not happened when the worker goes on.
MetadataStoreLate(m, e) == m

\* metadata_store_index_entry
MetadataStore(m, e) == [m EXCEPT ![e.name] = Some(e)]

\* An invalidation that leaves the entry in the cache.
MetadataInvalidateNothing(m, e) == m

\* metadata_invalidate_index_entry
MetadataInvalidate(m, e) == [m EXCEPT ![e.name] = None]

\* forward_index_request: the response entry goes to the metadata cache.
StoreMeta(r) ==
    /\ NoneDone
    /\ req[r].pc = "meta"
    /\ meta' = MetadataStore(meta, req[r].response.entry)
    /\ req' = [req EXCEPT ![r].pc = "reply", ![r].sent = NoHeaders,
                          ![r].response.entry = NoAtime(@)]
    /\ UNCHANGED <<files, up, style>>
    /\ UNCHANGED <<crateVars, cmp, path>>

\* forward_index_request: the answer after an upstream 200 or 304.
WorkerReply(r) ==
    /\ NoneDone
    /\ req[r].pc = "reply"
    /\ LET q == req[r]
           data == CacheFetch(q.name)
       IN  req' = [req EXCEPT ![r] =
                IF IsEquivalent(q.response.entry, q.entry)
                THEN Done(q, Reply(304, q.response.entry, <<>>))
                ELSE IF q.response.status = 200
                THEN Done(q, Reply(200, q.response.entry, q.response.data))
                ELSE IF IsSome(data)
                THEN Done(q, Reply(200, q.response.entry, Get(data)))
                ELSE [q EXCEPT !.pc = "inval"]]
    /\ UNCHANGED <<meta, files, up, style>>
    /\ UNCHANGED <<crateVars, cmp, path>>

\* forward_index_request: the cache file is lost.
Invalidate(r) ==
    /\ NoneDone
    /\ req[r].pc = "inval"
    /\ meta' = MetadataInvalidate(meta, req[r].entry)
    /\ req' = [req EXCEPT ![r] = Done(req[r], ErrorReply(503))]
    /\ UNCHANGED <<files, up, style>>
    /\ UNCHANGED <<crateVars, cmp, path>>

\* A forward_index_request that serves the stale file after any failed fetch.
HandleFetchErrorAlwaysStale(r) ==
    /\ NoneDone
    /\ req[r].pc = "err"
    /\ LET q == req[r]
           data == CacheFetch(q.name)
       IN  req' = [req EXCEPT ![r] =
                IF IsSome(data)
                THEN Done(q, Reply(200, q.entry, Get(data)))
                ELSE IF q.err.kind = "status"
                THEN Done(q, ErrorReply(q.err.code))
                ELSE Done(q, ErrorReply(502))]
    /\ UNCHANGED <<meta, files, up, style>>
    /\ UNCHANGED <<crateVars, cmp, path>>

\* A forward_index_request that drops the metadata entry after a failed fetch.
HandleFetchErrorEvict(r) ==
    /\ NoneDone
    /\ req[r].pc = "err"
    /\ LET q == req[r]
           data == CacheFetch(q.name)
       IN  req' = [req EXCEPT ![r] =
                IF q.err.kind = "transport" /\ IsSome(data)
                THEN Done(q, Reply(200, q.entry, Get(data)))
                ELSE IF q.err.kind = "status"
                THEN Done(q, ErrorReply(q.err.code))
                ELSE Done(q, ErrorReply(502))]
    /\ meta' = MetadataInvalidate(meta, req[r].entry)
    /\ UNCHANGED <<files, up, style>>
    /\ UNCHANGED <<crateVars, cmp, path>>

\* A forward_index_request that never serves the stale file.
HandleFetchErrorNoStale(r) ==
    /\ NoneDone
    /\ req[r].pc = "err"
    /\ req' = [req EXCEPT ![r] =
            IF req[r].err.kind = "status"
            THEN Done(req[r], ErrorReply(req[r].err.code))
            ELSE Done(req[r], ErrorReply(502))]
    /\ UNCHANGED <<meta, files, up, style>>
    /\ UNCHANGED <<crateVars, cmp, path>>

\* forward_index_request, the Err arm: the stale file, or the error forwarded
\* by send_fetch_error_response.
HandleFetchError(r) ==
    /\ NoneDone
    /\ req[r].pc = "err"
    /\ LET q == req[r]
           data == CacheFetch(q.name)
       IN  req' = [req EXCEPT ![r] =
                IF q.err.kind = "transport" /\ IsSome(data)
                THEN Done(q, Reply(200, q.entry, Get(data)))
                ELSE IF q.err.kind = "status"
                THEN Done(q, ErrorReply(q.err.code))
                ELSE Done(q, ErrorReply(502))]
    /\ UNCHANGED <<meta, files, up, style>>
    /\ UNCHANGED <<crateVars, cmp, path>>

(* --------------------------- the environment --------------------------- *)

\* The client has its response and the thread is gone.
Retire(r) ==
    /\ req[r].pc = "done"
    /\ req' = [req EXCEPT ![r] = IdleReq]
    /\ UNCHANGED <<meta, files, up, style>>
    /\ UNCHANGED <<crateVars, cmp, path>>

\* One unit of the monotonic clock passes: every Instant that will be read
\* again (the cached entries' and the downloaded entries' atime) is older.
Tick ==
    /\ NoneDone
    /\ meta' = [n \in DOMAIN meta |-> IF IsSome(meta[n]) THEN Some(Older(Get(meta[n]))) ELSE None]
    /\ req' = [r \in Slots |-> [req[r] EXCEPT !.response.entry = Older(@)]]
    /\ UNCHANGED <<files, up, style>>
    /\ UNCHANGED <<crateVars, cmp, path>>

\* The upstream registry publishes the next version of an index entry.
Publish(n) ==
    /\ NoneDone
    /\ up[n] < MaxVer
    /\ up' = [up EXCEPT ![n] = up[n] + 1]
    /\ req' = Disturbed({n})
    /\ UNCHANGED <<meta, files, style>>
    /\ UNCHANGED <<crateVars, cmp, path>>

\* A cache file is removed from outside the proxy.
ExternalDelete(n) ==
    /\ NoneDone
    /\ IsSome(files[n])
    /\ files' = [files EXCEPT ![n] = None]
    /\ req' = Disturbed({n})
    /\ UNCHANGED <<meta, up, style>>
    /\ UNCHANGED <<crateVars, cmp, path>>

\* The process is restarted: INDEX_CACHE and the threads are gone, the files stay.
Restart ==
    /\ NoneDone
    /\ \E r \in Slots : req[r].pc # "idle"
    /\ meta' = [n \in DOMAIN meta |-> None]
    /\ req' = [r \in Slots |-> IdleReq]
    /\ UNCHANGED <<files, up, style>>
    /\ UNCHANGED <<crateVars, cmp, path>>

Errors == {[kind |-> "transport", code |-> 0]} \cup
          {[kind |-> "status", code |-> c] : c \in ErrorStatuses}

(* ------------------------- the crate download -------------------------- *)

DlNoneDone == \A q \in Slots : dl[q].pc # "done"

DlFreeSlot(r) ==
    /\ dl[r].pc = "idle"
    /\ \A q \in Slots : q < r => dl[q].pc # "idle"

\* The request is answered.
DlDone(q, resp) == [q EXCEPT !.pc = "done", !.resp = Some(resp)]

\* A cache lookup that never finds the crate file.
CacheFetchCrateMiss(p) == None

\* cache_fetch_crate
CacheFetchCrate(p) ==
    IF IsSome(crates[p]) THEN Some(Get(crates[p]).data) ELSE None

\* handle_download_request
AcceptDownload(r, url) ==
    /\ DlNoneDone
    /\ DlFreeSlot(r)
    /\ LET info == TryFromDownloadUrl(url)
           q == [IdleDl EXCEPT !.crate = info, !.url = url]
       IN  dl' = [dl EXCEPT ![r] =
                IF info = None
                THEN DlDone(q, CrateReply(404, NoBytes))
                ELSE LET p == ToFilePath(Get(info))
                         data == CacheFetchCrate(p)
                         h == [q EXCEPT !.hit = IsSome(crates[p])]
                     IN  IF IsSome(data)
                         THEN DlDone(h, CrateReply(200, Get(data)))
                         ELSE [h EXCEPT !.pc = "fetch"]]
    /\ UNCHANGED <<crates, indexVars, cmp, path>>

\* The body lengths and the Content-Length headers upstream answers with.
CrateSizes == {MAX_CRATE_SIZE - 1, MAX_CRATE_SIZE, MAX_CRATE_SIZE + 1}

ContentLengths == {"len", "none", "bad"}

Min(a, b) == IF a < b THEN a ELSE b

DownloadOk(data) == [ok |-> TRUE, data |-> data, err |-> NoError]

DownloadErr(code) == [ok |-> FALSE, data |-> NoBytes, err |-> [kind |-> "status", code |-> code]]

\* A download_crate that lets a body of MAX_CRATE_SIZE bytes through.
DownloadCrateLax(answer, c) ==
    IF answer.hdr = "bad" THEN DownloadErr(400)
    ELSE IF answer.hdr = "len"
    THEN IF answer.len > MAX_CRATE_SIZE THEN DownloadErr(507)
         ELSE DownloadOk(Bytes(c, answer.len))
    ELSE LET data == Bytes(c, Min(answer.len, MAX_CRATE_SIZE))
         IN  IF data.len > MAX_CRATE_SIZE THEN DownloadErr(507)
             ELSE DownloadOk(data)

\* download_crate, once upstream answered 200: the Content-Length check, or
\* the read through take(MAX_CRATE_SIZE).
DownloadCrate(answer, c) ==
    IF answer.hdr = "bad" THEN DownloadErr(400)
    ELSE IF answer.hdr = "len"
    THEN IF answer.len > MAX_CRATE_SIZE THEN DownloadErr(507)
         ELSE DownloadOk(Bytes(c, answer.len))
    ELSE LET data == Bytes(c, Min(answer.len, MAX_CRATE_SIZE))
         IN  IF data.len >= MAX_CRATE_SIZE THEN DownloadErr(507)
             ELSE DownloadOk(data)

\* send_fetch_error_response
FetchErrorStatus(err) == IF err.kind = "status" THEN err.code ELSE 502

\* forward_download_request: upstream answers 200 and download_crate returns.
FetchCrateOk(r, hdr, len) ==
    /\ DlNoneDone
    /\ dl[r].pc = "fetch"
    /\ LET answer == [hdr |-> hdr, len |-> len]
           got == DownloadCrate(answer, Get(dl[r].crate))
           q == [dl[r] EXCEPT !.ups = @ + 1, !.answer = answer,
                              !.data = got.data, !.err = got.err]
       IN  dl' = [dl EXCEPT ![r] =
                IF got.ok THEN [q EXCEPT !.pc = "create"]
                ELSE DlDone(q, CrateReply(FetchErrorStatus(got.err), NoBytes))]
    /\ UNCHANGED <<crates, indexVars, cmp, path>>

\* forward_download_request: no connection, or upstream answers >= 400.
FetchCrateErr(r, err) ==
    /\ DlNoneDone
    /\ dl[r].pc = "fetch"
    /\ dl' = [dl EXCEPT ![r] =
            DlDone([dl[r] EXCEPT !.ups = @ + 1, !.err = err],
                   CrateReply(FetchErrorStatus(err), NoBytes))]
    /\ UNCHANGED <<crates, indexVars, cmp, path>>

\* cache_store_crate: std::fs::write creates or truncates the file.
StoreCrateCreate(r) ==
    /\ DlNoneDone
    /\ dl[r].pc = "create"
    /\ crates' = [crates EXCEPT ![ToFilePath(Get(dl[r].crate))] =
            Some([data |-> NoBytes, hdr |-> ""])]
    /\ dl' = [dl EXCEPT ![r].pc = "write", ![r].wrote = TRUE]
    /\ UNCHANGED <<indexVars, cmp, path>>

\* cache_store_crate: std::fs::write writes the bytes.
StoreCrateWrite(r) ==
    /\ DlNoneDone
    /\ dl[r].pc = "write"
    /\ crates' = [crates EXCEPT ![ToFilePath(Get(dl[r].crate))] =
            Some([data |-> dl[r].data, hdr |-> dl[r].answer.hdr])]
    /\ dl' = [dl EXCEPT ![r].pc = "reply"]
    /\ UNCHANGED <<indexVars, cmp, path>>

\* forward_download_request: send_crate_data_response
CrateDataReply(r) ==
    /\ DlNoneDone
    /\ dl[r].pc = "reply"
    /\ dl' = [dl EXCEPT ![r] = DlDone(dl[r], CrateReply(200, dl[r].data))]
    /\ UNCHANGED <<crates, indexVars, cmp, path>>

\* The client has its response and the thread is gone.
RetireDl(r) ==
    /\ dl[r].pc = "done"
    /\ dl' = [dl EXCEPT ![r] = IdleDl]
    /\ UNCHANGED <<crates, indexVars, cmp, path>>

\* A crate file is removed from outside the proxy.
ExternalDeleteCrate(p) ==
    /\ DlNoneDone
    /\ IsSome(crates[p])
    /\ crates' = [crates EXCEPT ![p] = None]
    /\ UNCHANGED <<dl, indexVars, cmp, path>>

NextCrate ==
    \/ \E r \in Slots, url \in DownloadUrls : AcceptDownload(r, url)
    \/ \E r \in Slots, hdr \in ContentLengths, len \in CrateSizes : FetchCrateOk(r, hdr, len)
    \/ \E r \in Slots, err \in Errors : FetchCrateErr(r, err)
    \/ \E r \in Slots : StoreCrateCreate(r)
    \/ \E r \in Slots : StoreCrateWrite(r)
    \/ \E r \in Slots : CrateDataReply(r)
    \/ \E r \in Slots : RetireDl(r)
    \/ \E p \in CratePaths : ExternalDeleteCrate(p)

\* The index side stays at rest: one style of upstream index headers is enough.
InitCrate ==
    /\ Init
    /\ style = [etag |-> TRUE, lm |-> "ok"]

SpecCrate == InitCrate /\ [][NextCrate]_vars

\* The steps of the requests in flight, of the clock and of the upstream.
FetchStep ==
    \/ \E r \in Slots : DispatchFile(r)
    \/ \E r \in Slots : DispatchStat(r)
    \/ \E r \in Slots : FetchOk(r)
    \/ \E r \in Slots, err \in Errors : FetchErr(r, err)
    \/ \E r \in Slots : StoreCreate(r)
    \/ \E r \in Slots : StoreWrite(r)
    \/ \E r \in Slots : StoreSetMtime(r)
    \/ \E r \in Slots : StoreMeta(r)
    \/ \E r \in Slots : WorkerReply(r)
    \/ \E r \in Slots : HandleFetchError(r)
    \/ \E r \in Slots : Retire(r)
    \/ Tick
    \/ \E n \in Names : Publish(n)

IndexStep ==
    \/ \E r \in Slots, n \in Names, inm \in ClientEtags, ims \in ClientDates :
            /\ Accept(r, n, inm, ims)
    \/ FetchStep
    \/ \E r \in Slots : Invalidate(r)
    \/ \E r \in Slots : Retry(r)

\* Clients that send no validators, and no file or metadata lost from outside.
\* A cache file is then never missing once metadata exists, so the cache-loss
\* path (Invalidate, Retry) has no step to take and is left out.
NextRace ==
    \/ \E r \in Slots, n \in Names : Accept(r, n, None, None)
    \/ FetchStep

NextNoLoss == IndexStep

Next ==
    \/ IndexStep
    \/ \E n \in Names : ExternalDelete(n)
    \/ Restart

Spec == Init /\ [][Next]_vars

SpecNoLoss == Init /\ [][NextNoLoss]_vars

SpecRace == Init /\ [][NextRace]_vars

(* ------------------------- the proxy as a whole ------------------------ *)

\* The two sides share no variable, so a run of the proxy is a run of the
\* index side interleaved with a run of the download side, and what one side
\* does is the same whatever the other does.  The proxy is explored one side
\* at a time: the index side while the download side is at rest, and the
\* download side while the index side is at rest.
IndexAtRest ==
    /\ meta = [n \in Names |-> None]
    /\ files = [n \in Names |-> None]
    /\ up = [n \in Names |-> 1]
    /\ req = [r \in Slots |-> IdleReq]

CratesAtRest ==
    /\ crates = [p \in CratePaths |-> None]
    /\ dl = [r \in Slots |-> IdleDl]

NextProxy ==
    \/ \E r \in Slots, n \in Names, inm \in ClientEtags, ims \in ClientDates :
            CratesAtRest /\ Accept(r, n, inm, ims)
    \/ \E r \in Slots, m \in Methods, u \in RequestUrls : CratesAtRest /\ Immediate(r, m, u)
    \/ \E r \in Slots : CratesAtRest /\ DispatchFile(r)
    \/ \E r \in Slots : CratesAtRest /\ DispatchStat(r)
    \/ \E r \in Slots : CratesAtRest /\ FetchOk(r)
    \/ \E r \in Slots, err \in Errors : CratesAtRest /\ FetchErr(r, err)
    \/ \E r \in Slots : CratesAtRest /\ StoreCreate(r)
    \/ \E r \in Slots : CratesAtRest /\ StoreWrite(r)
    \/ \E r \in Slots : CratesAtRest /\ StoreSetMtime(r)
    \/ \E r \in Slots : CratesAtRest /\ StoreMeta(r)
    \/ \E r \in Slots : CratesAtRest /\ WorkerReply(r)
    \/ \E r \in Slots : CratesAtRest /\ HandleFetchError(r)
    \/ \E r \in Slots : CratesAtRest /\ Invalidate(r)
    \/ \E r \in Slots : CratesAtRest /\ Retry(r)
    \/ \E r \in Slots : CratesAtRest /\ Retire(r)
    \/ CratesAtRest /\ Tick
    \/ \E n \in Names : CratesAtRest /\ Publish(n)
    \/ \E n \in Names : CratesAtRest /\ ExternalDelete(n)
    \/ CratesAtRest /\ Restart
    \/ \E r \in Slots, url \in DownloadUrls : IndexAtRest /\ AcceptDownload(r, url)
    \/ \E r \in Slots, hdr \in ContentLengths, len \in CrateSizes :
            IndexAtRest /\ FetchCrateOk(r, hdr, len)
    \/ \E r \in Slots, err \in Errors : IndexAtRest /\ FetchCrateErr(r, err)
    \/ \E r \in Slots : IndexAtRest /\ StoreCrateCreate(r)
    \/ \E r \in Slots : IndexAtRest /\ StoreCrateWrite(r)
    \/ \E r \in Slots : IndexAtRest /\ CrateDataReply(r)
    \/ \E r \in Slots : IndexAtRest /\ RetireDl(r)
    \/ \E p \in CratePaths : IndexAtRest /\ ExternalDeleteCrate(p)

\* Upstream sends both validators: the style that every path is open under.
InitBothValidators ==
    /\ Init
    /\ style = [etag |-> TRUE, lm |-> "ok"]

SpecProxy == InitBothValidators /\ [][NextProxy]_vars

\* What the worker thread of index request r does next, and of download r.
WorkerStep(r) ==
    \/ DispatchFile(r)
    \/ DispatchStat(r)
    \/ FetchOk(r)
    \/ \E err \in Errors : FetchErr(r, err)
    \/ StoreCreate(r)
    \/ StoreWrite(r)
    \/ StoreSetMtime(r)
    \/ StoreMeta(r)
    \/ WorkerReply(r)
    \/ HandleFetchError(r)
    \/ Invalidate(r)

CrateWorkerStep(r) ==
    \/ \E hdr \in ContentLengths, len \in CrateSizes : FetchCrateOk(r, hdr, len)
    \/ \E err \in Errors : FetchCrateErr(r, err)
    \/ StoreCrateCreate(r)
    \/ StoreCrateWrite(r)
    \/ CrateDataReply(r)

\* The proxy while nothing is taken from it: no file removed from outside,
\* no restart. Every upstream call returns (FetchOk, FetchErr and their crate
\* counterparts are steps of the worker).
NextLive ==
    \/ \E r \in Slots, n \in Names, inm \in ClientEtags, ims \in ClientDates :
            CratesAtRest /\ Accept(r, n, inm, ims)
    \/ \E r \in Slots, m \in Methods, u \in RequestUrls : CratesAtRest /\ Immediate(r, m, u)
    \/ \E r \in Slots : CratesAtRest /\ DispatchFile(r)
    \/ \E r \in Slots : CratesAtRest /\ DispatchStat(r)
    \/ \E r \in Slots : CratesAtRest /\ FetchOk(r)
    \/ \E r \in Slots, err \in Errors : CratesAtRest /\ FetchErr(r, err)
    \/ \E r \in Slots : CratesAtRest /\ StoreCreate(r)
    \/ \E r \in Slots : CratesAtRest /\ StoreWrite(r)
    \/ \E r \in Slots : CratesAtRest /\ StoreSetMtime(r)
    \/ \E r \in Slots : CratesAtRest /\ StoreMeta(r)
    \/ \E r \in Slots : CratesAtRest /\ WorkerReply(r)
    \/ \E r \in Slots : CratesAtRest /\ HandleFetchError(r)
    \/ \E r \in Slots : CratesAtRest /\ Invalidate(r)
    \/ \E r \in Slots : CratesAtRest /\ Retry(r)
    \/ \E r \in Slots : CratesAtRest /\ Retire(r)
    \/ CratesAtRest /\ Tick
    \/ \E n \in Names : CratesAtRest /\ Publish(n)
    \/ \E r \in Slots, url \in DownloadUrls : IndexAtRest /\ AcceptDownload(r, url)
    \/ \E r \in Slots, hdr \in ContentLengths, len \in CrateSizes :
            IndexAtRest /\ FetchCrateOk(r, hdr, len)
    \/ \E r \in Slots, err \in Errors : IndexAtRest /\ FetchCrateErr(r, err)
    \/ \E r \in Slots : IndexAtRest /\ StoreCrateCreate(r)
    \/ \E r \in Slots : IndexAtRest /\ StoreCrateWrite(r)
    \/ \E r \in Slots : IndexAtRest /\ CrateDataReply(r)
    \/ \E r \in Slots : IndexAtRest /\ RetireDl(r)

\* Scheduling: a spawned worker thread runs to its end, and a client reads the
\* response it was sent. Strong fairness for the workers, because the look at
\* a finished request (NoneDone) suspends every other thread for one step.
Fairness ==
    \A r \in Slots :
        SF_vars(\/ CratesAtRest /\ (WorkerStep(r) \/ Retire(r))
                \/ IndexAtRest /\ (CrateWorkerStep(r) \/ RetireDl(r)))

SpecLive == InitBothValidators /\ [][NextLive]_vars /\ Fairness

(* ------------------------ one is_equivalent call ----------------------- *)

EquivNames == {"serde", "tokio"}

\* The entries is_equivalent is called with: any name, any ETag, any mtime
\* (on a second boundary or between two), any atime.
CmpEntries ==
    [name : EquivNames,
     etag : {None} \cup {Some(v) : v \in Versions},
     mtime : {None} \cup {Some(t) : t \in TicksPerSec .. (MaxVer * TicksPerSec + 1)},
     atime : {None, Some(0), Some(Ttl + 1)}]

InitEquiv ==
    /\ InitIndex
    /\ InitCrates
    /\ cmp \in [a : CmpEntries, b : CmpEntries, result : {None}]
    /\ path = NoPath

\* a.is_equivalent(&b)
CallIsEquivalent ==
    /\ cmp.result = None
    /\ cmp' = [cmp EXCEPT !.result = Some(IsEquivalent(cmp.a, cmp.b))]
    /\ UNCHANGED <<indexVars, crateVars, path>>

NextEquiv == CallIsEquivalent

SpecEquiv == InitEquiv /\ [][NextEquiv]_vars

(* ------------------- index paths: the specification -------------------- *)

InitPath ==
    /\ InitIndex
    /\ InitCrates
    /\ style = [etag |-> TRUE, lm |-> "ok"]
    /\ cmp = NoCmp
    /\ path \in [name : Strings(MaxNameLen), step : {"new"}, url : {Panicked},
                 parsed : {None}]

\* IndexEntry::new(name).to_index_url()
CallToIndexUrl ==
    /\ path.step = "new"
    /\ LET url == ToIndexUrl(NewEntry(path.name))
       IN  path' = [path EXCEPT !.url = url,
                                !.step = IF url = Panicked THEN "panic" ELSE "url"]
    /\ UNCHANGED <<indexVars, crateVars, cmp>>

\* IndexEntry::try_from_index_url(url)
CallTryFromIndexUrl ==
    /\ path.step = "url"
    /\ path' = [path EXCEPT !.parsed = TryFromIndexUrl(path.url), !.step = "parsed"]
    /\ UNCHANGED <<indexVars, crateVars, cmp>>

NextPath ==
    \/ CallToIndexUrl
    \/ CallTryFromIndexUrl

SpecPath == InitPath /\ [][NextPath]_vars

(* ------------------ parsed paths: the specification -------------------- *)

\* Most segments of a path drawn.
MaxSegments == 4

\* What stands between two '/': nothing, the prefixes of short names, other
\* prefixes, a name, and a segment with a dot.
Segments == {<<>>, <<"1">>, <<"2">>, <<"3">>, <<"a", "b">>, <<"a", ".">>}

\* url.split('/') of every path: one segment at least.
IndexUrls == UNION {[1..k -> Segments] : k \in 1..MaxSegments}

InitUrl ==
    /\ InitIndex
    /\ InitCrates
    /\ style = [etag |-> TRUE, lm |-> "ok"]
    /\ cmp = NoCmp
    /\ path \in [name : {<<>>}, step : {"url"}, url : IndexUrls, parsed : {None}]

NextUrl == CallTryFromIndexUrl

SpecUrl == InitUrl /\ [][NextUrl]_vars

(* ----------------------- two names: the specification ------------------- *)

TwoNames == {"serde", "tokio"}

\* Either the proxy with two crates upstream and empty caches, or one call
\* of to_file_path (to_index_url) on a name.
InitIso ==
    /\ meta = [n \in TwoNames |-> None]
    /\ files = [n \in TwoNames |-> None]
    /\ up = [n \in TwoNames |-> 1]
    /\ style = [etag |-> TRUE, lm |-> "ok"]
    /\ req = [r \in Slots |-> IdleReq]
    /\ InitCrates
    /\ cmp = NoCmp
    /\ \/ path = NoPath
       \/ path \in [name : Strings(MaxNameLen), step : {"new"}, url : {Panicked},
                    parsed : {None}]

\* Clients without validators, for either name, any number at a time; the
\* upstream entries stay as they are.
NextIso ==
    \/ \E r \in Slots, n \in TwoNames : path = NoPath /\ Accept(r, n, None, None)
    \/ \E r \in Slots : path = NoPath /\ DispatchFile(r)
    \/ \E r \in Slots : path = NoPath /\ DispatchStat(r)
    \/ \E r \in Slots : path = NoPath /\ FetchOk(r)
    \/ \E r \in Slots, err \in Errors : path = NoPath /\ FetchErr(r, err)
    \/ \E r \in Slots : path = NoPath /\ StoreCreate(r)
    \/ \E r \in Slots : path = NoPath /\ StoreWrite(r)
    \/ \E r \in Slots : path = NoPath /\ StoreSetMtime(r)
    \/ \E r \in Slots : path = NoPath /\ StoreMeta(r)
    \/ \E r \in Slots : path = NoPath /\ WorkerReply(r)
    \/ \E r \in Slots : path = NoPath /\ HandleFetchError(r)
    \/ \E r \in Slots : path = NoPath /\ Invalidate(r)
    \/ \E r \in Slots : path = NoPath /\ Retire(r)
    \/ path = NoPath /\ Tick
    \/ \E n \in TwoNames : path = NoPath /\ ExternalDelete(n)
    \/ CallToIndexUrl

SpecIso == InitIso /\ [][NextIso]_vars

(* ------------------------------- claims -------------------------------- *)

\* Request r is taken from the accept loop in this step.
Accepted(r) == req[r].pc = "idle" /\ req'[r].pc # "idle"

\* Request r gets its response in this step.
Answered(r) == req[r].pc # "done" /\ req'[r].pc = "done"

\* C1 (cache hit): a request for a name whose cached entry is within its TTL
\* (elapsed <= ttl) and equivalent to the client's validators is answered 304
\* with the cached validators by the dispatcher itself: no upstream request, no
\* later dispatcher or worker step (so no file is read or written), and the
\* metadata cache and the files are as they were.
C1_CacheHit ==
    [][\A r \in Slots :
        (/\ Accepted(r)
         /\ IsSome(meta[req'[r].name])
         /\ Get(Get(meta[req'[r].name]).atime) <= Ttl
         /\ IsEquivalent(Get(meta[req'[r].name]), req'[r].entry))
        => LET e == Get(meta[req'[r].name])
           IN  /\ req'[r].pc = "done"
               /\ req'[r].resp = Some([status |-> 304, etag |-> e.etag,
                                       lm |-> LastModified(e), body |-> <<>>])
               /\ req'[r].ups = 0
               /\ meta' = meta
               /\ files' = files]_vars

\* C1 happens: a 304 sent without any upstream request.
C1_Witness ==
    \E r \in Slots :
        /\ req[r].pc = "done"
        /\ req[r].ups = 0
        /\ Get(req[r].resp).status = 304
        /\ HasValidator(req[r].entry)

\* The validator the claim expects upstream: If-None-Match when the entry has
\* an ETag, else If-Modified-Since when it has an mtime.
StrongestValidator(e) ==
    IF IsSome(e.etag) THEN [inm |-> e.etag, ims |-> None]
    ELSE IF IsSome(e.mtime)
    THEN [inm |-> None, ims |-> Some([ok |-> TRUE, secs |-> Get(e.mtime) \div TicksPerSec])]
    ELSE [inm |-> None, ims |-> None]

\* C2 (revalidation): a request that finds an expired cached entry e (elapsed >
\* ttl) is forwarded with e as the basis, whatever the client's validators; it
\* has no response before its upstream GET, it issues exactly one GET, and
\* that GET carries e's strongest validator and no other.
C2_Revalidation ==
    [][\A r \in Slots :
        /\ (/\ Accepted(r)
            /\ IsSome(meta[req'[r].name])
            /\ Get(Get(meta[req'[r].name]).atime) > Ttl)
           => /\ req'[r].pc = "fetch"
              /\ req'[r].reval
              /\ req'[r].ups = 0
              /\ req'[r].resp = None
              /\ req'[r].basis.etag = Get(meta[req'[r].name]).etag
              /\ req'[r].basis.mtime = Get(meta[req'[r].name]).mtime
        /\ (req[r].reval /\ req[r].pc = "fetch" /\ req'[r].pc # "fetch" /\ req'[r].reval)
           => /\ req'[r].ups = 1
              /\ req'[r].sent = StrongestValidator(req[r].basis)
              /\ ~(IsSome(req'[r].sent.inm) /\ IsSome(req'[r].sent.ims))
        /\ req'[r].reval
           => /\ req'[r].ups = IF req'[r].pc = "fetch" THEN 0 ELSE 1
              /\ (IsSome(req'[r].resp) => req'[r].ups = 1)]_vars

\* C2 happens: a revalidation that was answered after its one upstream GET,
\* for a client whose validators match the expired entry's.
C2_Witness ==
    \E r \in Slots :
        /\ req[r].pc = "done"
        /\ req[r].reval
        /\ req[r].ups = 1
        /\ Get(req[r].resp).status = 304

\* C3 (stale on transport error): when the upstream fetch of a forwarded
\* request failed with a transport error and the cache file of the name can be
\* read, the client gets 200 with exactly the file's bytes, after exactly one
\* upstream request.
C3_StaleOnTransportError ==
    [][\A r \in Slots :
        (/\ req[r].pc = "err"
         /\ req'[r].pc # "err"
         /\ req'[r].pc # "idle"
         /\ req[r].err.kind = "transport"
         /\ IsSome(files[req[r].name]))
        => /\ req'[r].pc = "done"
           /\ Get(req'[r].resp).status = 200
           /\ Get(req'[r].resp).body = Get(files[req[r].name]).data
           /\ req'[r].ups = 1]_vars

\* C3 happens: a 200 with a body sent after a transport error.
C3_Witness ==
    \E r \in Slots :
        /\ req[r].pc = "done"
        /\ req[r].err.kind = "transport"
        /\ Get(req[r].resp).status = 200
        /\ Get(req[r].resp).body # <<>>

\* The file holds the bytes upstream served with the validators of entry e.
HoldsBytesOf(f, e) ==
    /\ IsSome(e.etag) => f.data = Body(Get(e.etag))
    /\ \A v \in Versions :
           e.mtime = ParseHttpDate(DateOfVersion(v)) => f.data = Body(v)

\* C4 (invariant I1): with no file deleted from outside and no write error,
\* every name whose cached entry has an etag or an mtime has its cache file,
\* and the file holds exactly the bytes upstream served with those validators.
C4_I1 ==
    \A n \in Names :
        (IsSome(meta[n]) /\ HasValidator(Get(meta[n])))
        => /\ IsSome(files[n])
           /\ HoldsBytesOf(Get(files[n]), Get(meta[n]))

\* The validators of entry e are those of upstream version v.
DescribesVersion(e, v) ==
    /\ IsSome(e.etag) => Get(e.etag) = v
    /\ IsSome(e.mtime) => e.mtime = ParseHttpDate(DateOfVersion(v))

\* Request r found an expired entry, carried no client validators, ran with no
\* other request in flight and no new version published, and upstream answered.
HealingRequest(r) ==
    /\ req[r].pc = "done"
    /\ req[r].reval
    /\ req[r].quiet
    /\ ~HasValidator(req[r].entry)
    /\ req[r].err = NoError

\* C5 (self-healing): whatever file and metadata racing workers for one name
\* left behind, the next request without client validators that runs alone
\* after the TTL expired gets upstream's current bytes with status 200, and
\* afterwards the cached file and the cached metadata are those of upstream's
\* current version.
C5_SelfHealing ==
    \A r \in Slots :
        HealingRequest(r) =>
            LET n == req[r].name
            IN  /\ Get(req[r].resp).status = 200
                /\ Get(req[r].resp).body = Body(up[n])
                /\ IsSome(files[n]) /\ Get(files[n]).data = Body(up[n])
                /\ IsSome(meta[n]) /\ DescribesVersion(Get(meta[n]), up[n])

\* Request r was answered after upstream's 304, the downloaded entry is not
\* equivalent to the client's, and the name has no cache file.
CacheLossCase(r) ==
    /\ req[r].pc = "done"
    /\ req[r].response.status = 304
    /\ ~IsEquivalent(req[r].response.entry, req[r].entry)
    /\ files[req[r].name] = None

\* C6 (cache loss): when upstream answers 304, the downloaded entry is not
\* equivalent to the client's and the cache file cannot be read, the client
\* gets 503 and, once the worker has finished, the metadata cache holds no
\* entry for the name.
C6_CacheLoss ==
    \A r \in Slots :
        CacheLossCase(r) =>
            /\ req[r].resp = Some(ErrorReply(503))
            /\ meta[req[r].name] = None

C6_Witness ==
    \E r \in Slots :
        /\ CacheLossCase(r)
        /\ Get(req[r].resp).status = 503
        /\ HasValidator(req[r].response.entry)

\* C7 (retry after cache loss): the same request sent again right after the
\* 503 of a lost cache file, running alone while upstream is reachable, is
\* answered by upstream with 200 and the full current body, and when it is
\* done the file cache and the metadata cache hold the entry again.
C7_RetryAfterCacheLoss ==
    \A r \in Slots :
        (/\ req[r].pc = "done"
         /\ req[r].retry
         /\ req[r].quiet
         /\ req[r].err = NoError)
        => LET n == req[r].name
           IN  /\ req[r].response.status = 200
               /\ req[r].response.data = Body(up[n])
               /\ IsSome(files[n])
               /\ IsSome(meta[n])

\* The entry with another name and another atime.
Renamed(e) == [e EXCEPT !.name = "other", !.atime = Some(Ttl)]

\* C8 (validator equivalence, I4), as stated: is_equivalent(a, b) is true
\* exactly when both ETags are set and equal or both mtimes are set and
\* equal; an entry without validators is equivalent to nothing, and the
\* result does not depend on name or atime.
C8_Equivalence ==
    IsSome(cmp.result) =>
        /\ Get(cmp.result) <=>
              \/ (IsSome(cmp.a.etag) /\ IsSome(cmp.b.etag) /\ cmp.a.etag = cmp.b.etag)
              \/ (IsSome(cmp.a.mtime) /\ IsSome(cmp.b.mtime) /\ cmp.a.mtime = cmp.b.mtime)
        /\ ~HasValidator(cmp.a) => ~Get(cmp.result)
        /\ Get(cmp.result) = IsEquivalent(Renamed(cmp.a), Renamed(cmp.b))

\* C8, amended: the mtimes are compared as HTTP dates, which carry whole
\* seconds: both mtimes are set and fall in the same second.
C8_EquivalenceHttpDate ==
    IsSome(cmp.result) =>
        /\ Get(cmp.result) <=>
              \/ (IsSome(cmp.a.etag) /\ IsSome(cmp.b.etag) /\ cmp.a.etag = cmp.b.etag)
              \/ /\ IsSome(cmp.a.mtime) /\ IsSome(cmp.b.mtime)
                 /\ FmtHttpDate(Get(cmp.a.mtime)) = FmtHttpDate(Get(cmp.b.mtime))
        /\ ~HasValidator(cmp.a) => ~Get(cmp.result)
        /\ Get(cmp.result) = IsEquivalent(Renamed(cmp.a), Renamed(cmp.b))

C8_Witness ==
    /\ cmp.result = Some(TRUE)
    /\ cmp.a.etag # cmp.b.etag
    /\ cmp.a.mtime # cmp.b.mtime
    /\ cmp.a.name # cmp.b.name

\* C9 (crate cache hit): a download request whose crate has a file in the
\* cache is answered 200 with the file's bytes, without an upstream request
\* and without a write to the cache; upstream is asked only when the file is
\* absent, and after a successful download the bytes were written to the
\* cache and are the body of the 200 response.
C9_CrateCacheHit ==
    \A r \in Slots :
        (dl[r].pc = "done" /\ IsSome(dl[r].crate)) =>
            LET q == dl[r]
                p == ToFilePath(Get(q.crate))
            IN  /\ q.hit => /\ q.resp = Some(CrateReply(200, Get(crates[p]).data))
                            /\ q.ups = 0
                            /\ ~q.wrote
                /\ ~q.hit => q.ups = 1
                /\ (~q.hit /\ q.err = NoError)
                   => /\ q.wrote
                      /\ q.data = Bytes(Get(q.crate), q.answer.len)
                      /\ q.resp = Some(CrateReply(200, q.data))

C9_Witness ==
    \E r \in Slots :
        /\ dl[r].pc = "done"
        /\ dl[r].hit
        /\ Get(dl[r].resp).status = 200
        /\ Get(dl[r].resp).body.len = MAX_CRATE_SIZE

\* Upstream's answer is over the cap: its Content-Length exceeds
\* MAX_CRATE_SIZE, or it has no Content-Length and at least MAX_CRATE_SIZE bytes.
OverCap(answer) ==
    \/ answer.hdr = "len" /\ answer.len > MAX_CRATE_SIZE
    \/ answer.hdr = "none" /\ answer.len >= MAX_CRATE_SIZE

\* C10 (crate size cap): a download that is over the cap is answered 507 and
\* writes no file; every crate file in the cache has at most MAX_CRATE_SIZE
\* bytes, and fewer when it was downloaded without a Content-Length.
C10_CrateSizeCap ==
    /\ \A r \in Slots :
           (dl[r].pc = "done" /\ dl[r].ups = 1 /\ OverCap(dl[r].answer))
           => /\ dl[r].resp = Some(CrateReply(507, NoBytes))
              /\ ~dl[r].wrote
    /\ \A p \in CratePaths :
           IsSome(crates[p])
           => /\ Get(crates[p]).data.len <= MAX_CRATE_SIZE
              /\ Get(crates[p]).hdr = "none" => Get(crates[p]).data.len < MAX_CRATE_SIZE

C10_Witness ==
    /\ \E r \in Slots :
           /\ dl[r].pc = "done"
           /\ dl[r].answer = [hdr |-> "none", len |-> MAX_CRATE_SIZE]
           /\ Get(dl[r].resp).status = 507
    /\ \E p \in CratePaths :
           /\ IsSome(crates[p])
           /\ Get(crates[p]).data.len = MAX_CRATE_SIZE

\* C11 (error mapping): a fetch that upstream answers with a status >= 400
\* gives the client that status and no body, for an index entry (cached file
\* or not) and for a crate; a fetch that fails with a transport error gives
\* 502 for a crate and for an index entry without cached file.
C11_ErrorMapping ==
    /\ \A r \in Slots :
           req[r].pc = "done" =>
               /\ req[r].err.kind = "status"
                  => req[r].resp = Some(ErrorReply(req[r].err.code))
               /\ (req[r].err.kind = "transport" /\ files[req[r].name] = None)
                  => req[r].resp = Some(ErrorReply(502))
    /\ \A r \in Slots :
           dl[r].pc = "done" =>
               /\ dl[r].err.kind = "status"
                  => dl[r].resp = Some(CrateReply(dl[r].err.code, NoBytes))
               /\ dl[r].err.kind = "transport"
                  => dl[r].resp = Some(CrateReply(502, NoBytes))

C11_Witness ==
    \E r \in Slots :
        /\ req[r].pc = "done"
        /\ req[r].err = [kind |-> "status", code |-> 500]
        /\ IsSome(files[req[r].name])
        /\ Get(files[req[r].name]).data # <<>>
        /\ Get(req[r].resp).status = 500

\* C12 (liveness of a request): a request leaves only as an answered one, it
\* holds a response exactly while it is answered and that response is never
\* replaced; and while every upstream call returns and every thread is
\* scheduled, each request that is being handled is answered in the end.
C12_AnsweredOnce ==
    /\ [][\A r \in Slots :
            /\ (req[r].pc # "idle" /\ req'[r].pc = "idle") =>
                    (req[r].pc = "done" /\ IsSome(req[r].resp))
            /\ (req'[r].pc = "done") <=> IsSome(req'[r].resp)
            /\ (IsSome(req[r].resp) /\ IsSome(req'[r].resp)) => req'[r].resp = req[r].resp
            /\ (dl[r].pc # "idle" /\ dl'[r].pc = "idle") =>
                    (dl[r].pc = "done" /\ IsSome(dl[r].resp))
            /\ (dl'[r].pc = "done") <=> IsSome(dl'[r].resp)
            /\ (IsSome(dl[r].resp) /\ IsSome(dl'[r].resp)) => dl'[r].resp = dl[r].resp]_vars
    /\ \A r \in Slots : (req[r].pc \notin {"idle", "done"}) ~> (req[r].pc = "done")
    /\ \A r \in Slots : (dl[r].pc \notin {"idle", "done"}) ~> (dl[r].pc = "done")

\* A request that went upstream and was answered
\* while another one, accepted after it, is still with its worker.
C12_Witness ==
    \E r, o \in Slots :
        /\ req[r].pc = "done"
        /\ req[r].ups >= 1
        /\ IsSome(req[r].resp)
        /\ req[o].pc \in WorkerPcs

C15_RoundTrip ==
    (path.step \in {"panic", "parsed"} /\ path.name # <<>>) =>
        /\ path.step = "parsed"
        /\ path.parsed = Some(NewEntry(path.name))

\* A name of one-byte characters, none of them a dot.
PlainName(name) == \A i \in 1..Len(name) : name[i] # "." /\ Utf8Len(name[i]) = 1

\* C15 as the code has it: the round trip of every non-empty name of one-byte
\* characters without a dot.
C15_RoundTripPlain ==
    (path.step \in {"panic", "parsed"} /\ path.name # <<>> /\ PlainName(path.name)) =>
        /\ path.step = "parsed"
        /\ path.parsed = Some(NewEntry(path.name))

\* A name of the four-character layout went through both calls.
C15_Witness ==
    /\ path.step = "parsed"
    /\ PlainName(path.name)
    /\ Len(path.name) = MaxNameLen
    /\ Len(path.url) = 3
    /\ path.parsed = Some(NewEntry(path.name))

\* C14 (isolation between names): a step of the handling of a request for
\* name n, in the dispatcher or in the worker, leaves the metadata entry and
\* the cache file of every other name as they are; and the last segment of
\* the cache file path of a name is the name, so two names never share a path.
C14_Isolation ==
    /\ [][\A r \in Slots :
            req'[r].pc # req[r].pc =>
                LET n == IF req[r].pc = "idle" THEN req'[r].name ELSE req[r].name
                IN  \A m \in DOMAIN meta \ {n} :
                        meta'[m] = meta[m] /\ files'[m] = files[m]]_vars
    /\ [](path.step = "url" => path.url[Len(path.url)] = path.name)

\* A request for one name has stored its file and its entry while the other
\* name is cached.
C14_Witness ==
    \E r \in Slots :
        /\ req[r].name = "tokio"
        /\ req[r].pc = "reply"
        /\ IsSome(meta["tokio"])
        /\ IsSome(meta["serde"])
        /\ IsSome(files["serde"])

\* The caches and the upstream counters of a request are as they were.
NothingTouched(q) ==
    /\ q.pc = "done"
    /\ q.ups = 0
    /\ meta' = meta
    /\ files' = files
    /\ crates' = crates

\* C16 (dispatch table): what a request meets when it is accepted follows
\* from its method and path alone. Not a GET: 403. GET /index/config.json:
\* 200 with the synthesized file. GET /index/<rest>: the index path for the
\* entry that <rest> names, 404 where it names none. GET /api/v1/crates/<rest>:
\* the download path for the crate that <rest> names, 404 where it names none.
\* Any other GET: 404. The immediate answers read no cache, write none and
\* make no upstream call.
C16_DispatchTable ==
    [][\A r \in Slots :
        /\ (req[r].pc = "idle" /\ req'[r].pc # "idle") =>
            LET q == req'[r]
                index == q.url.head = CRATES_INDEX_PATH
                config == index /\ q.url.rest = CONFIG_JSON_ENDPOINT
                parsed == TryFromIndexUrl(q.url.rest)
            IN  /\ q.method # "GET" =>
                    (q.resp = Some(ErrorReply(403)) /\ NothingTouched(q))
                /\ (q.method = "GET" /\ config) =>
                    (/\ Get(q.resp).status = 200
                     /\ Get(q.resp).body = ConfigJson
                     /\ NothingTouched(q))
                /\ (q.method = "GET" /\ index /\ ~config /\ parsed = None) =>
                    (q.resp = Some(ErrorReply(404)) /\ NothingTouched(q))
                /\ (q.method = "GET" /\ index /\ ~config /\ parsed # None) =>
                    (/\ Spelling[q.name] = Get(parsed).name
                     /\ q.pc \in {"d_file", "d_stat", "fetch", "done"}
                     /\ q.pc = "done" =>
                            (Get(q.resp).status \in {200, 304} /\ Get(q.resp).body # ConfigJson))
                /\ (q.method = "GET" /\ ~index) =>
                    (q.resp = Some(ErrorReply(404)) /\ NothingTouched(q))
        /\ (dl[r].pc = "idle" /\ dl'[r].pc # "idle") =>
            LET d == dl'[r]
                parsed == TryFromDownloadUrl(d.url)
            IN  /\ parsed = None =>
                    (/\ d.pc = "done"
                     /\ d.resp = Some(CrateReply(404, NoBytes))
                     /\ d.ups = 0
                     /\ crates' = crates)
                /\ parsed # None =>
                    (/\ d.crate = parsed
                     /\ d.pc \in {"fetch", "done"}
                     /\ d.pc = "done" => Get(d.resp).status = 200)]_vars

\* The configuration file was served while an entry was cached and another
\* request was with its worker.
C16_Witness ==
    \E r, o \in Slots :
        /\ req[r].pc = "done"
        /\ req[r].method = "GET"
        /\ req[r].url = [head |-> CRATES_INDEX_PATH, rest |-> CONFIG_JSON_ENDPOINT]
        /\ Get(req[r].resp).body = ConfigJson
        /\ req[o].pc = "fetch"
        /\ IsSome(meta[req[o].name])

\* The request a client sends next for the entry it was just sent: the same
\* name, the validators of the response, dispatched in the state the response
\* was sent in.
FollowUp(r) ==
    LET resp == Get(req[r].resp)
    IN  HandleIndexRequest([IdleReq EXCEPT !.name = req[r].name,
                                           !.entry = ClientEntry(req[r].name, resp.etag, resp.lm)])

\* The worker of r answered after an upstream 200 or 304, with a validator,
\* and no other request for the name was accepted while r was handled.
WorkerAnswered(r) ==
    /\ req[r].pc = "done"
    /\ req[r].quiet
    /\ req[r].ups >= 1
    /\ req[r].err = NoError
    /\ Get(req[r].resp).status \in {200, 304}
    /\ IsSome(Get(req[r].resp).etag) \/ IsSome(Get(req[r].resp).lm)

\* C17 (population before response): when the client has the worker's answer
\* to an index request, the metadata entry is stored, and so is the file if
\* upstream sent 200; within the TTL the next request for the name with the
\* validators of that answer is answered 304 by the dispatcher, with no
\* upstream call. When the client has the 200 of a downloaded crate, the
\* crate file is in the cache: the next request for it is a hit.
C17_PopulationBeforeResponse ==
    /\ \A r \in Slots :
            WorkerAnswered(r) =>
                /\ IsSome(meta[req[r].name])
                /\ req[r].response.status = 200 => IsSome(files[req[r].name])
                /\ ~IsExpired(Get(meta[req[r].name])) =>
                        /\ FollowUp(r).pc = "done"
                        /\ Get(FollowUp(r).resp).status = 304
                        /\ FollowUp(r).ups = 0
    /\ \A r \in Slots :
            (dl[r].pc = "done" /\ dl[r].ups >= 1 /\ Get(dl[r].resp).status = 200) =>
                CacheFetchCrate(ToFilePath(Get(dl[r].crate))) # None

\* The worker stored the file and the entry of an upstream 200 and answered
\* 200: the follow-up request is answered 304 from the metadata cache.
C17_Witness ==
    \E r \in Slots :
        /\ WorkerAnswered(r)
        /\ req[r].response.status = 200
        /\ Get(req[r].resp).status = 200
        /\ ~IsExpired(Get(meta[req[r].name]))
        /\ Get(FollowUp(r).resp).status = 304

\* C18 (fetch basis): when the dispatcher spawns the worker of a request
\* that is handled alone, the entry whose validators go upstream is the
\* metadata cache entry if there is one, else the entry recovered from the
\* mtime of the cached file if there is one, else the bare entry of the name:
\* never the client's entry.
C18_FetchBasis ==
    [][\A r \in Slots :
        (req[r].pc # "fetch" /\ req'[r].pc = "fetch" /\ req'[r].quiet) =>
            LET n == req'[r].name
            IN  NoAtime(req'[r].basis) =
                    IF IsSome(MetadataFetch(n)) THEN NoAtime(Get(MetadataFetch(n)))
                    ELSE IF IsSome(CacheTryFind(n)) THEN NoAtime(Get(CacheTryFind(n)))
                    ELSE NewEntry(n)]_vars

\* The worker of r moves on from position pc (a restart ends it instead).
Leaves(r, pc) == req[r].pc = pc /\ req'[r].pc \notin {pc, "idle"}

\* C19 (index worker on upstream 200): the worker takes the body upstream
\* sent, creates the file of the name, writes the body to it, sets its mtime,
\* stores the returned entry in the metadata cache and only then answers:
\* 304 without a body if the returned entry is equivalent to the client's
\* entry, else 200 with the upstream body; both with the validators of the
\* returned entry.
C19_WorkerOn200 ==
    [][\A r \in Slots :
        LET q == req[r]
            n == req[r].name
            ok == req[r].response.status = 200
        IN  /\ (Leaves(r, "fetch") /\ req'[r].response.status = 200) =>
                    /\ req'[r].pc = "create"
                    /\ req'[r].response.data = Body(up[n])
                    /\ files' = files /\ meta' = meta
            /\ Leaves(r, "create") =>
                    /\ ok /\ req'[r].pc = "write"
                    /\ IsSome(files'[n])
                    /\ meta' = meta
            /\ Leaves(r, "write") =>
                    /\ ok /\ req'[r].pc \in {"setmtime", "meta"}
                    /\ IsSome(files'[n]) /\ Get(files'[n]).data = q.response.data
                    /\ meta' = meta
            /\ Leaves(r, "setmtime") =>
                    /\ ok /\ req'[r].pc = "meta"
                    /\ IsSome(files'[n]) /\ Some(Get(files'[n]).mtime) = q.response.entry.mtime
                    /\ IsSome(files[n]) => Get(files'[n]).data = Get(files[n]).data
                    /\ meta' = meta
            /\ (Leaves(r, "meta") /\ ok) =>
                    /\ req'[r].pc = "reply"
                    /\ meta' = [meta EXCEPT ![n] = Some(q.response.entry)]
                    /\ files' = files
            /\ (Leaves(r, "reply") /\ ok) =>
                    /\ req'[r].pc = "done"
                    /\ files' = files /\ meta' = meta
                    /\ Get(req'[r].resp).etag = q.response.entry.etag
                    /\ Get(req'[r].resp).lm = LastModified(q.response.entry)
                    /\ IF IsEquivalent(q.response.entry, q.entry)
                       THEN Get(req'[r].resp).status = 304 /\ Get(req'[r].resp).body = <<>>
                       ELSE Get(req'[r].resp).status = 200
                                /\ Get(req'[r].resp).body = q.response.data]_vars

\* Upstream sent a new version to a client that holds it already: the file
\* and the entry are stored, the client is answered 304.
C19_Witness ==
    \E r \in Slots :
        /\ req[r].pc = "done"
        /\ req[r].response.status = 200
        /\ Get(req[r].resp).status = 304
        /\ IsSome(Get(req[r].resp).etag)
        /\ IsSome(files[req[r].name])
        /\ Get(files[req[r].name]).data = req[r].response.data
        /\ IsSome(meta[req[r].name])
        /\ Get(meta[req[r].name]).etag = Get(req[r].resp).etag

\* C20 (index worker on upstream 304): the worker stores the returned entry,
\* whose atime is the time of the upstream call, in the metadata cache and
\* answers; it creates, truncates and writes no file, whether or not a body
\* came with the 304. Where the cache file is lost it invalidates the entry
\* of the name, and that is its only other effect.
C20_WorkerOn304 ==
    [][\A r \in Slots :
        LET q == req[r]
            n == req[r].name
            nm == req[r].response.status = 304
        IN  /\ (Leaves(r, "fetch") /\ req'[r].response.status = 304) =>
                    /\ req'[r].pc = "meta"
                    /\ req'[r].response.entry.atime = Some(0)
                    /\ files' = files /\ meta' = meta
            /\ (Leaves(r, "meta") /\ nm) =>
                    /\ req'[r].pc = "reply"
                    /\ meta' = [meta EXCEPT ![n] = Some(q.response.entry)]
                    /\ files' = files
            /\ (Leaves(r, "reply") /\ nm) =>
                    /\ req'[r].pc \in {"done", "inval"}
                    /\ req'[r].pc = "inval" <=> (files[n] = None /\ ~IsEquivalent(q.response.entry, q.entry))
                    /\ files' = files /\ meta' = meta
            /\ Leaves(r, "inval") =>
                    /\ nm /\ req'[r].pc = "done"
                    /\ meta' = [meta EXCEPT ![n] = None]
                    /\ files' = files]_vars

\* An upstream 304 that came with a body was answered from the cached file,
\* which is as it was, and the metadata entry is the returned one.
C20_Witness ==
    \E r \in Slots :
        /\ req[r].pc = "done"
        /\ req[r].response.status = 304
        /\ req[r].response.data # <<>>
        /\ req[r].reval
        /\ Get(req[r].resp).status = 200
        /\ IsSome(files[req[r].name])
        /\ Get(files[req[r].name]).data = Get(req[r].resp).body
        /\ Get(files[req[r].name]).data # req[r].response.data
        /\ IsSome(meta[req[r].name])
        /\ NoAtime(Get(meta[req[r].name])) = req[r].response.entry

\* C21 (Last-Modified parse failure): the entry download_index_entry returns
\* has the mtime of the fetch basis where the upstream Last-Modified is no
\* HTTP date, and the parsed instant where it is one.
C21_LastModifiedParseFailure ==
    [][\A r \in Slots :
        (Leaves(r, "fetch") /\ req'[r].response.status \in {200, 304}) =>
            /\ style.lm = "bad" => req'[r].response.entry.mtime = req[r].basis.mtime
            /\ style.lm = "ok" =>
                   req'[r].response.entry.mtime =
                       ParseHttpDate(DateOfVersion(up[req[r].name]))]_vars

\* C22 (metadata lifetime): while the process lives, the metadata entry of a
\* name goes away in one step only: that of a worker in the cache-loss
\* branch (upstream 304, file missing) for that name. The passing of time,
\* cache hits, failed fetches, stores and file removals leave it present.
C22_MetadataLifetime ==
    [][\A n \in DOMAIN meta :
        (IsSome(meta[n]) /\ meta'[n] = None) =>
            \/ \E r \in Slots :
                    /\ req[r].pc = "inval"
                    /\ req[r].name = n
                    /\ req[r].response.status = 304
                    /\ req'[r].pc = "done"
            \/ /\ \E r \in Slots : req[r].pc \notin {"idle", "done"}
               /\ \A r \in Slots : req'[r] = IdleReq
               /\ \A m \in DOMAIN meta : meta'[m] = None]_vars

\* The revalidation of an expired entry failed and the entry is still there,
\* expired.
C22_Witness ==
    \E r \in Slots :
        /\ req[r].pc = "done"
        /\ req[r].reval
        /\ req[r].err.kind # "none"
        /\ IsSome(meta[req[r].name])
        /\ IsExpired(Get(meta[req[r].name]))

\* C23 (store/recover round trip): when cache_store_index_entry has run to its
\* end for an entry with an mtime, and no other request touched the file
\* meanwhile, cache_try_find_index_entry returns an entry of the same name with
\* that mtime, no etag and no atime, and cache_fetch_index_entry returns the
\* bytes stored; with no file, cache_try_find_index_entry returns nothing.
C23_StoreRecoverRoundTrip ==
    [][/\ \A r \in Slots :
            (/\ req[r].pc \in {"write", "setmtime"}
             /\ req'[r].pc = "meta"
             /\ req[r].quiet
             /\ IsSome(req[r].response.entry.mtime)) =>
                /\ CacheTryFind(req[r].name)' =
                       Some([name |-> req[r].name, etag |-> None,
                             mtime |-> req[r].response.entry.mtime, atime |-> None])
                /\ CacheFetch(req[r].name)' = Some(req[r].response.data)
       /\ \A n \in Names : files'[n] = None => CacheTryFind(n)' = None]_vars

\* A store of an entry with an mtime has just ended and the file is there.
C23_Witness ==
    \E r \in Slots :
        /\ req[r].pc = "meta"
        /\ req[r].quiet
        /\ req[r].response.status = 200
        /\ IsSome(req[r].response.entry.mtime)
        /\ CacheFetch(req[r].name) = Some(req[r].response.data)
        /\ files[req[r].name] # None
        /\ Get(files[req[r].name]).mtime = Get(req[r].response.entry.mtime)

\* C24 (atomic crate store): a reader of the crate cache sees no file or the
\* whole of the stored bytes, so a 200 crate response served from the cache
\* never carries a body that is empty.
C24_AtomicCrateStore ==
    \A r \in Slots :
        (/\ dl[r].pc = "done"
         /\ dl[r].hit
         /\ Get(dl[r].resp).status = 200) =>
            /\ Get(dl[r].resp).body # NoBytes
            /\ Get(dl[r].resp).body.len > 0

\* C25 (accepted language of from_index_url), as stated: a path is accepted
\* exactly when it has no '.' and either two segments, the first "1" or "2",
\* or three segments whatever the first two are; the name is the last segment.
C25_AcceptedLanguage ==
    path.step = "parsed" =>
        LET url == path.url
            dotted == \E i \in 1..Len(url) : "." \in {url[i][j] : j \in 1..Len(url[i])}
            short == Len(url) = 2 /\ url[1] \in {<<"1">>, <<"2">>}
            long == Len(url) = 3
        IN  /\ IsSome(path.parsed) <=> (~dotted /\ (short \/ long))
            /\ IsSome(path.parsed) => Get(path.parsed) = NewEntry(url[Len(url)])

\* C25 (accepted language of from_index_url), amended: a path is accepted
\* exactly when it has no '.' and either two segments, the first "1" or "2",
\* or three segments, the first neither "1" nor "2"; the name is the last
\* segment, with no validators and no atime.
C25_AcceptedLanguageAmended ==
    path.step = "parsed" =>
        LET url == path.url
            dotted == \E i \in 1..Len(url) : "." \in {url[i][j] : j \in 1..Len(url[i])}
            short == Len(url) = 2 /\ url[1] \in {<<"1">>, <<"2">>}
            long == Len(url) = 3 /\ url[1] \notin {<<"1">>, <<"2">>}
        IN  /\ IsSome(path.parsed) <=> (~dotted /\ (short \/ long))
            /\ IsSome(path.parsed) => Get(path.parsed) = NewEntry(url[Len(url)])

\* A path of three segments was parsed and its last segment is the name.
C25_Witness ==
    /\ path.step = "parsed"
    /\ Len(path.url) = 3
    /\ path.url[3] = <<"a", "b">>
    /\ path.parsed = Some(NewEntry(<<"a", "b">>))

\* C26 (no empty crate name): try_from_index_url rejects a path or returns an
\* entry whose name is not empty, so the path derived from an accepted entry
\* (to_index_url, to_file_path) is never the empty path.
C26_NoEmptyName ==
    (path.step = "parsed" /\ IsSome(path.parsed)) =>
        /\ Get(path.parsed).name # <<>>
        /\ ToIndexUrl(Get(path.parsed)) # << <<>> >>

\* C27 (validators sent with a body describe that body): in a 200 index
\* response that carries an entry's bytes, an ETag is the one upstream sent
\* with those bytes and a Last-Modified is the date upstream sent with them;
\* neither is a value the client put in If-None-Match or If-Modified-Since.
C27_ValidatorsDescribeBody ==
    \A r \in Slots :
        (/\ req[r].pc = "done"
         /\ req[r].name \in Names
         /\ IsSome(req[r].resp)
         /\ Get(req[r].resp).status = 200
         /\ Get(req[r].resp).body \in {Body(v) : v \in Versions}) =>
            LET resp == Get(req[r].resp)
                v == CHOOSE w \in Versions : Body(w) = resp.body
            IN  /\ IsSome(resp.etag) => Get(resp.etag) = v
                /\ IsSome(resp.lm) => Get(resp.lm) = DateOfVersion(v)

\* C28 (no validator carry-over on new content): the entry download_index_entry
\* returns with an upstream 200 has the ETag and the mtime of that response's
\* headers and none where the response has no such header; what the fetch
\* basis had is not kept.
C28_NoValidatorCarryOver ==
    [][\A r \in Slots :
        (Leaves(r, "fetch") /\ req'[r].response.status = 200) =>
            LET e == req'[r].response.entry
                v == up[req[r].name]
            IN  /\ e.etag = IF style.etag THEN Some(v) ELSE None
                /\ e.mtime = IF style.lm = "ok" THEN ParseHttpDate(DateOfVersion(v))
                             ELSE None]_vars

\* C29 (index bodies served whole under concurrency): while a worker is inside
\* cache_store_index_entry, a request that reads the file gets a whole body
\* (no 200 index response has an empty one), and a request that stats the
\* file recovers an mtime that is the Last-Modified of some version.
C29_IndexBodiesWhole ==
    [][\A r \in Slots :
        /\ (/\ req[r].pc # "done"
            /\ req'[r].pc = "done"
            /\ req'[r].name \in Names
            /\ Get(req'[r].resp).status = 200) =>
                Get(req'[r].resp).body \in {Body(v) : v \in Versions}
        /\ (/\ req[r].pc = "d_stat"
            /\ req'[r].pc = "fetch"
            /\ IsSome(CacheTryFind(req[r].name))) =>
                Get(CacheTryFind(req[r].name)).mtime \in
                    {ParseHttpDate(DateOfVersion(v)) : v \in Versions}]_vars

\* C30 (failed fetches leave the caches unchanged): a step in which an index
\* or crate fetch ends in a transport error or a status >= 400, and the step
\* that answers the client after it, leave the metadata cache, the index
\* files and the crate files as they were; an expired entry whose
\* revalidation failed is still there and still expired when the client has
\* its answer, so the next request for it goes upstream again.
C30_FailedFetchLeavesCaches ==
    [][/\ \A r \in Slots :
            (\/ req[r].pc = "fetch" /\ req'[r].pc = "err"
             \/ req[r].pc = "err" /\ req'[r].pc = "done") =>
                /\ meta' = meta
                /\ files' = files
                /\ crates' = crates
       /\ \A r \in Slots :
            (/\ dl[r].pc = "fetch"
             /\ dl'[r].pc = "done"
             /\ dl'[r].err # NoError) =>
                /\ crates' = crates
                /\ meta' = meta
                /\ files' = files
       /\ \A r \in Slots :
            (/\ req[r].pc = "done"
             /\ req[r].err # NoError
             /\ req[r].reval
             /\ req[r].quiet) =>
                /\ IsSome(meta[req[r].name])
                /\ IsExpired(Get(meta[req[r].name]))
                /\ HandleIndexRequest([IdleReq EXCEPT !.name = req[r].name,
                                                      !.entry = NewEntry(req[r].name)]).pc
                       = "fetch"]_vars

\* An upstream status >= 400 was forwarded to the client of an expired entry,
\* with the cache file and the expired metadata as they were.
C30_Witness ==
    \E r \in Slots :
        /\ req[r].pc = "done"
        /\ req[r].err.kind = "status"
        /\ req[r].reval
        /\ req[r].quiet
        /\ Get(req[r].resp).status = req[r].err.code
        /\ IsSome(files[req[r].name])
        /\ IsSome(meta[req[r].name])
        /\ IsExpired(Get(meta[req[r].name]))

====
